---- MODULE Spec2Model ----
(***************************************************************************)
(* A model of dmm (src/src/main.rs): a launcher that resolves a list of    *)
(* runnable entries, renders it as a tagged menu, hands the menu to the    *)
(* external selector dmenu, decodes the selector's output back into run    *)
(* actions and dispatches them.                                            *)
(*                                                                         *)
(* Strings are sequences of character codes, so that splitting, trimming,  *)
(* digit parsing, case folding and ordering are computed, not assumed.     *)
(***************************************************************************)
EXTENDS Integers, Sequences, FiniteSets, TLC

VARIABLES
    config,        \* the Config the run was started with
    env,           \* the world outside: file system, PATH, installed programs
    pc,            \* position of the primary flow of control
    error,         \* the anyhow error the run failed with, "" while there is none
    warnings,      \* what warn_error has reported so far, in order
    entries,       \* Vec<RunEntry>: the entry list being resolved / resolved
    paths,         \* build_entries: the search paths not yet visited
    bins,          \* build_entries: the item path_bins yielded for the current path
    menu_entries,  \* build_entries: HashMap<ImStr, Option<RunEntry>>
    found,         \* every (path, name) the traversal has recorded, in order
    menu_display,  \* the text display_entries rendered
    dmenu_out,     \* the text run_dmenu returned
    choices,       \* the lines of dmenu_out not yet decoded
    commands,      \* Vec<Run>: the commands collected / dispatched
    next_cmd,      \* run_commands: index of the command the loop is at
    spawned,       \* every launch attempted so far, in order
    writer,        \* run_dmenu: the thread writing the menu to dmenu's stdin
    selector,      \* run_dmenu: the dmenu child process
    stdin_pipe,    \* bytes written to dmenu's stdin and not yet read by it
    stdout_pipe,   \* bytes dmenu wrote to its stdout and not yet read
    output         \* run_dmenu: the bytes wait_with_output has collected

resVars == <<paths, bins, menu_entries, found>>
selVars == <<menu_display, dmenu_out, choices>>
runVars == <<next_cmd, spawned>>
ioVars == <<writer, selector, stdin_pipe, stdout_pipe, output>>

vars == <<config, env, pc, error, warnings, entries, commands, resVars, selVars, runVars, ioVars>>

(***************************************************************************)
(* Bounds of the model.                                                    *)
(***************************************************************************)
MaxResolved == 2   \* longest resolved entry list fed to the selection stage
MaxChoices == 2    \* most lines the selector writes
MaxCommands == 3   \* longest batch handed to run_commands
MaxEntries == 2    \* most entries the configuration declares
MaxFiles == 1      \* most executables in a search directory of the merge stage
MaxItems == 2      \* most items in the top search directory of the walk stage
PipeCap == 2       \* bytes an OS pipe holds before a write to it blocks
MaxMenuLines == 2  \* longest menu written to the selector in the bridge stage
MaxSelectorOps == 4  \* longest run of reads and writes of a selector before it exits

(***************************************************************************)
(* Characters and strings.                                                 *)
(***************************************************************************)
Ord ==
    ("\n" :> 10) @@ (" " :> 32) @@ ("/" :> 47) @@ ("0" :> 48) @@ ("1" :> 49)
    @@ ("2" :> 50) @@ ("4" :> 52) @@ (":" :> 58) @@ ("A" :> 65) @@ ("a" :> 97)
    @@ ("b" :> 98) @@ ("d" :> 100) @@ ("h" :> 104) @@ ("l" :> 108) @@ ("m" :> 109) @@ ("r" :> 114)
    @@ ("s" :> 115) @@ ("x" :> 120) @@ ("y" :> 121) @@ ("~" :> 126)
    @@ ("zw0" :> 8203) @@ ("zw1" :> 8204)

\* The string spelled by a tuple of characters.
S(t) == [i \in 1..Len(t) |-> Ord[t[i]]]

NL == Ord["\n"]

IsDigit(c) == c \in 48..57

\* char::is_whitespace on the characters that occur here.
IsWhitespace(c) == c \in {9, 10, 11, 12, 13, 32, 133, 160}

\* str::trim().is_empty()
IsBlank(s) == \A i \in 1..Len(s) : IsWhitespace(s[i])

\* u8::to_ascii_lowercase, applied to every character.
to_ascii_lowercase(s) == [i \in 1..Len(s) |-> IF s[i] \in 65..90 THEN s[i] + 32 ELSE s[i]]

\* Ord::cmp on strings: -1, 0 or 1, lexicographic on the character codes.
RECURSIVE StrCmp(_, _)
StrCmp(l, r) ==
    IF l = <<>> /\ r = <<>> THEN 0
    ELSE IF l = <<>> THEN -1
    ELSE IF r = <<>> THEN 1
    ELSE IF Head(l) < Head(r) THEN -1
    ELSE IF Head(l) > Head(r) THEN 1
    ELSE StrCmp(Tail(l), Tail(r))

\* str::split('\n'): the pieces between newlines, empty pieces included.
RECURSIVE SplitFrom(_, _)
SplitFrom(s, cur) ==
    IF s = <<>> THEN <<cur>>
    ELSE IF Head(s) = NL THEN <<cur>> \o SplitFrom(Tail(s), <<>>)
    ELSE SplitFrom(Tail(s), Append(cur, Head(s)))

SplitLines(s) == SplitFrom(s, <<>>)

RECURSIVE Concat(_)
Concat(ss) == IF ss = <<>> THEN <<>> ELSE Head(ss) \o Concat(Tail(ss))

\* All sequences over set of length 0..n.
SeqsUpTo(set, n) == UNION {[1..k -> set] : k \in 0..n}

None == [some |-> FALSE, val |-> 0]
Some(v) == [some |-> TRUE, val |-> v]

(***************************************************************************)
(* config::Run and RunEntry.                                               *)
(***************************************************************************)
Bare(argv) == [kind |-> "Bare", argv |-> argv, text |-> <<>>]
Shell(text) == [kind |-> "Shell", argv |-> <<>>, text |-> text]

\* Run::binary: a bare command made of the program alone.
binary(name) == Bare(<<name>>)

RunEntry(name, run, group) == [name |-> name, run |-> run, group |-> group]

(***************************************************************************)
(* dmm::tag: the two tag schemes.                                          *)
(***************************************************************************)
RECURSIVE DecimalDigits(_)
DecimalDigits(n) ==
    IF n < 10 THEN <<48 + n>> ELSE Append(DecimalDigits(n \div 10), 48 + (n % 10))

RECURSIVE BinaryDigits(_)
BinaryDigits(n) ==
    IF n < 2 THEN <<Ord["zw0"] + n>>
    ELSE Append(BinaryDigits(n \div 2), Ord["zw0"] + (n % 2))

IsTagSymbol(c) == c \in {Ord["zw0"], Ord["zw1"]}

\* Tag::push_tag: the marker of index i.
push_tag(T, i) == IF T = "Decimal" THEN DecimalDigits(i) ELSE BinaryDigits(i)

RECURSIVE LeadingDigits(_)
LeadingDigits(s) ==
    IF s /= <<>> /\ IsDigit(Head(s)) THEN <<Head(s)>> \o LeadingDigits(Tail(s)) ELSE <<>>

RECURSIVE TrailingSymbols(_)
TrailingSymbols(s) ==
    IF s /= <<>> /\ IsTagSymbol(s[Len(s)])
    THEN Append(TrailingSymbols(SubSeq(s, 1, Len(s) - 1)), s[Len(s)])
    ELSE <<>>

RECURSIVE ParseBase(_, _, _)
ParseBase(ds, zero, base) ==
    IF ds = <<>> THEN 0
    ELSE ParseBase(SubSeq(ds, 1, Len(ds) - 1), zero, base) * base + (ds[Len(ds)] - zero)

\* Tag::pop_tag: the index a line is tagged with, if it carries a tag.  The
\* caller passes the line only, so the index is not compared with the list.
pop_tag(T, tagged) ==
    IF T = "Decimal"
    THEN LET ds == LeadingDigits(tagged)
         IN IF ds = <<>> THEN None ELSE Some(ParseBase(ds, 48, 10))
    ELSE LET bs == TrailingSymbols(tagged)
         IN IF bs = <<>> THEN None ELSE Some(ParseBase(bs, Ord["zw0"], 2))

\* main: decimal tags when numbering is enabled, binary tags otherwise.
TagScheme(cfg) == IF cfg.numbered.enabled THEN "Decimal" ELSE "Binary"

(***************************************************************************)
(* build_entries: the final order.                                         *)
(***************************************************************************)
IntCmp(a, b) == IF a < b THEN -1 ELSE IF a > b THEN 1 ELSE 0

\* The comparator handed to sort_unstable_by: group descending, then
\* lower-cased name, then name.
entry_cmp(l, r) ==
    LET by_group == IntCmp(r.group, l.group)
        by_lowercase_name == StrCmp(to_ascii_lowercase(l.name), to_ascii_lowercase(r.name))
        by_name == StrCmp(l.name, r.name)
    IN IF by_group /= 0 THEN by_group
       ELSE IF by_lowercase_name /= 0 THEN by_lowercase_name
       ELSE by_name

\* What sort_unstable_by guarantees of its result.
IsSorted(es) == \A i, j \in 1..Len(es) : i < j => entry_cmp(es[i], es[j]) <= 0

(***************************************************************************)
(* display_entries and get_selection.                                      *)
(***************************************************************************)
\* display_entries numbering the lines from one: the tag of a line is then
\* not the index of its entry.
display_entries_from_one(T, cfg, ents) ==
    LET line(i) ==
            IF cfg.numbered.enabled
            THEN push_tag(T, i) \o cfg.numbered.separator \o ents[i].name \o <<NL>>
            ELSE ents[i].name \o push_tag(T, i) \o <<NL>>
    IN Concat([i \in 1..Len(ents) |-> line(i)])

display_entries(T, cfg, ents) ==
    LET line(i) ==
            IF cfg.numbered.enabled
            THEN push_tag(T, i - 1) \o cfg.numbered.separator \o ents[i].name \o <<NL>>
            ELSE ents[i].name \o push_tag(T, i - 1) \o <<NL>>
    IN Concat([i \in 1..Len(ents) |-> line(i)])

\* The lines get_selection keeps: dmenu's output split on newlines, blank
\* lines dropped.
selected_lines(out) == SelectSeq(SplitLines(out), LAMBDA choice : ~IsBlank(choice))

\* The closure without the ad-hoc gate: an untagged line always runs.
select_choice_ungated(T, choice, ents, custom) ==
    LET id == pop_tag(T, choice)
    IN IF id.some
       THEN IF id.val < Len(ents)
            THEN [kind |-> "run", run |-> ents[id.val + 1].run]
            ELSE [kind |-> "panic", run |-> Shell(<<>>)]
       ELSE [kind |-> "run", run |-> Shell(choice)]

\* The filter_map closure of get_selection on one line: the command it
\* yields, the warning it reports, or the panic of the failed expect.
select_choice(T, choice, ents, custom) ==
    LET id == pop_tag(T, choice)
    IN IF id.some
       THEN IF id.val < Len(ents)
            THEN [kind |-> "run", run |-> ents[id.val + 1].run]
            ELSE [kind |-> "panic", run |-> Shell(<<>>)]
       ELSE IF custom = "Enabled"
            THEN [kind |-> "run", run |-> Shell(choice)]
            ELSE [kind |-> "warn", run |-> Shell(<<>>)]

Warning(kind, subject) == [kind |-> kind, subject |-> subject]

DisplayEntries ==
    /\ pc = "display"
    /\ menu_display' = display_entries(TagScheme(config), config, entries)
    /\ pc' = "dmenu"
    /\ UNCHANGED <<config, env, error, entries, warnings, dmenu_out, choices, commands,
                 resVars, runVars, ioVars>>

\* What the user may type into the selector besides picking a menu line.
TypedLines ==
    { S(<<"l", "s">>), S(<<" ">>), S(<<"4">>), S(<<"l", "zw1", "zw1">>) }

\* The selector returns lines of the menu, verbatim, or typed text.
SelectorLines(menu) == {SplitLines(menu)[i] : i \in 1..Len(SplitLines(menu))} \cup TypedLines

JoinLines(ls, terminated) ==
    IF ls = <<>> THEN <<>>
    ELSE LET all == Concat([i \in 1..Len(ls) |-> ls[i] \o <<NL>>])
         IN IF terminated THEN all ELSE SubSeq(all, 1, Len(all) - 1)

\* run_dmenu returned Ok(text).
DmenuReturns ==
    /\ pc = "dmenu"
    /\ \E ls \in SeqsUpTo(SelectorLines(menu_display), MaxChoices), terminated \in BOOLEAN :
         /\ dmenu_out' = JoinLines(ls, terminated)
         /\ choices' = selected_lines(JoinLines(ls, terminated))
    /\ pc' = "decode"
    /\ UNCHANGED <<config, env, error, entries, warnings, menu_display, commands,
                 resVars, runVars, ioVars>>

\* run_dmenu returned Err: get_selection returns it ("problem running dmenu").
DmenuFails ==
    /\ pc = "dmenu"
    /\ pc' = "failed"
    /\ error' = "problem running dmenu"
    /\ UNCHANGED <<config, env, entries, warnings, commands, resVars, selVars, runVars, ioVars>>

\* One line through the filter_map closure.
DecodeChoice ==
    /\ pc = "decode"
    /\ choices /= <<>>
    /\ LET r == select_choice(TagScheme(config), Head(choices), entries, config.custom)
       IN /\ pc' = IF r.kind = "panic" THEN "panic" ELSE "decode"
          /\ commands' = IF r.kind = "run" THEN Append(commands, r.run) ELSE commands
          /\ warnings' = IF r.kind = "warn"
                         THEN Append(warnings, Warning("adhoc-disabled", Head(choices)))
                         ELSE warnings
    /\ choices' = Tail(choices)
    /\ UNCHANGED <<config, env, error, entries, menu_display, dmenu_out, resVars, runVars, ioVars>>

\* collect() is complete: get_selection returns Ok(commands).
ReturnSelection ==
    /\ pc = "decode"
    /\ choices = <<>>
    /\ pc' = "selected"
    /\ UNCHANGED <<config, env, error, entries, warnings, commands, resVars, selVars, runVars, ioVars>>

(***************************************************************************)
(* The selection stage on its own: any resolved list, any selector output. *)
(***************************************************************************)
ShellDisabled == [enabled |-> FALSE, shell |-> <<>>, piped |-> FALSE]
PathDisabled ==
    [enabled |-> FALSE, path |-> <<>>, env |-> FALSE, replace |-> FALSE,
     recursive |-> FALSE, group |-> 0]
Full(name, run, group) == [kind |-> "Full", name |-> name, run |-> run, group |-> group]

SelNames == { S(<<"a">>), S(<<"1", "a">>), S(<<"a", "zw1">>) }
SelEntries == { RunEntry(S(<<"a">>), Shell(S(<<"l", "s">>)), 0) }
           \cup { RunEntry(n, binary(n), 0) : n \in SelNames }
Separators == { <<>>, S(<<":">>) }
NumberedConfigs ==
    {[enabled |-> FALSE, separator |-> S(<<":">>)]}
    \cup {[enabled |-> TRUE, separator |-> sep] : sep \in Separators}

\* The variables of the stages a specification leaves out.
NoEnv == [fs |-> <<>>, path_var |-> <<>>, has_path_var |-> FALSE, installed |-> {}]
NoBins == [kind |-> "none", files |-> <<>>, error |-> ""]
ResIdle == paths = <<>> /\ bins = NoBins /\ menu_entries = <<>> /\ found = <<>>
SelIdle == menu_display = <<>> /\ dmenu_out = <<>> /\ choices = <<>>
RunIdle == next_cmd = 1 /\ spawned = <<>>
IoIdle ==
    /\ writer = [pc |-> "unborn", pos |-> 0]
    /\ selector = [pc |-> "unborn", prog |-> <<>>]
    /\ stdin_pipe = <<>>
    /\ stdout_pipe = <<>>
    /\ output = <<>>

SelectInit ==
    /\ entries \in {es \in SeqsUpTo(SelEntries, MaxResolved) : IsSorted(es)}
    /\ \E numbered \in NumberedConfigs, custom \in {"Enabled", "Disabled"} :
         config = [entries |-> [i \in 1..Len(entries) |->
                                  Full(entries[i].name, entries[i].run, entries[i].group)],
                   shell |-> ShellDisabled, path |-> PathDisabled,
                   custom |-> custom, numbered |-> numbered, home_dir |-> S(<<"/", "h">>)]
    /\ env = NoEnv
    /\ pc = "display"
    /\ error = ""
    /\ warnings = <<>>
    /\ commands = <<>>
    /\ ResIdle /\ SelIdle /\ RunIdle /\ IoIdle

SelectNext ==
    \/ DisplayEntries
    \/ DmenuReturns
    \/ DmenuFails
    \/ DecodeChoice
    \/ ReturnSelection

SpecSelect == SelectInit /\ [][SelectNext]_vars

(***************************************************************************)
(* Properties of the selection stage.                                      *)
(***************************************************************************)
\* The line display_entries rendered for the entry at index i (1-based here).
RenderedLine(i) == SplitLines(menu_display)[i]

\* The selector's output is exactly that line (with or without its newline).
EchoOf(i) ==
    /\ i <= Len(SplitLines(menu_display))
    /\ dmenu_out \in {RenderedLine(i), RenderedLine(i) \o <<NL>>}

GetSelectionEnded == pc \in {"selected", "panic"}

\* C1 as stated: echoing the rendered line of any entry of any resolved list
\* yields exactly that entry's run action.
C1_RoundTripEveryList ==
    \A i \in 1..Len(entries) :
        (GetSelectionEnded /\ EchoOf(i)) => (pc = "selected" /\ commands = <<entries[i].run>>)

\* What follows the decimal tag does not start with a digit; what precedes
\* the binary tag does not end with a tag symbol.
TagUnambiguous(i) ==
    IF config.numbered.enabled
    THEN LET rest == config.numbered.separator \o entries[i].name
         IN rest = <<>> \/ ~IsDigit(rest[1])
    ELSE LET name == entries[i].name
         IN name = <<>> \/ ~IsTagSymbol(name[Len(name)])

\* C1, amended: echoing the rendered line of entry i yields exactly entry i's
\* run action whenever the text next to the tag cannot be read as part of the
\* tag.
C1_RoundTrip ==
    \A i \in 1..Len(entries) :
        (GetSelectionEnded /\ EchoOf(i) /\ TagUnambiguous(i))
            => (pc = "selected" /\ commands = <<entries[i].run>>)

C1_Witness ==
    /\ pc = "selected"
    /\ Len(entries) = 2
    /\ EchoOf(2)
    /\ TagUnambiguous(2)
    /\ entries[1].run /= entries[2].run
    /\ commands = <<entries[2].run>>

\* A line whose tag decodes to an index outside the entry list.
OutOfRange(choice) ==
    LET id == pop_tag(TagScheme(config), choice)
    IN id.some /\ id.val >= Len(entries)

\* C2: a line whose tag is out of range is handled as ad-hoc input (a shell
\* command when ad-hoc is enabled, one warning and no command when it is
\* not) and get_selection does not panic.
C2_OutOfRangeIsAdHoc ==
    [][(pc = "decode" /\ choices /= <<>> /\ OutOfRange(Head(choices)))
         => /\ pc' = "decode"
            /\ IF config.custom = "Enabled"
               THEN commands' = Append(commands, Shell(Head(choices))) /\ warnings' = warnings
               ELSE commands' = commands /\ Len(warnings') = Len(warnings) + 1]_vars

\* The lines of the output that are not blank, in order.
KeptLines == SelectSeq(SplitLines(dmenu_out), LAMBDA l : \E k \in 1..Len(l) : ~IsWhitespace(l[k]))

Undecodable(choice) == ~pop_tag(TagScheme(config), choice).some

RECURSIVE ExpectedCommands(_)
ExpectedCommands(ls) ==
    IF ls = <<>> THEN <<>>
    ELSE LET l == Head(ls)
             id == pop_tag(TagScheme(config), l)
         IN (IF Undecodable(l)
             THEN IF config.custom = "Enabled" THEN <<Shell(l)>> ELSE <<>>
             ELSE IF id.val < Len(entries) THEN <<entries[id.val + 1].run>> ELSE <<>>)
            \o ExpectedCommands(Tail(ls))

RECURSIVE ExpectedWarnings(_)
ExpectedWarnings(ls) ==
    IF ls = <<>> THEN <<>>
    ELSE (IF Undecodable(Head(ls)) /\ config.custom /= "Enabled"
          THEN <<Warning("adhoc-disabled", Head(ls))>> ELSE <<>>)
         \o ExpectedWarnings(Tail(ls))

\* C3: blank lines are dropped; every other line without a tag gives exactly
\* one Run::Shell of the verbatim line (ad-hoc enabled) or exactly one warning
\* and no command (ad-hoc disabled); the lines are worked through in order,
\* and no such line ends get_selection: only a line that carries a tag can.
C3_AdHocGating ==
    pc \in {"decode", "selected", "panic"} =>
        LET done == Len(KeptLines) - Len(choices)
        IN /\ done >= 0
           /\ choices = SubSeq(KeptLines, done + 1, Len(KeptLines))
           /\ pc = "selected" => choices = <<>>
           /\ pc = "panic" => done >= 1 /\ ~Undecodable(KeptLines[done])
           /\ LET worked == SubSeq(KeptLines, 1, IF pc = "panic" THEN done - 1 ELSE done)
              IN /\ commands = ExpectedCommands(worked)
                 /\ warnings = ExpectedWarnings(worked)

C3_Witness ==
    /\ pc = "selected"
    /\ config.custom = "Disabled"
    /\ Len(SplitLines(dmenu_out)) > Len(KeptLines) + 1
    /\ Len(KeptLines) = 1
    /\ Undecodable(KeptLines[1])
    /\ commands = <<>>
    /\ Len(warnings) = 1

(***************************************************************************)
(* run_commands.                                                           *)
(***************************************************************************)
Launch(program, args, stdin, ok) ==
    [program |-> program, args |-> args, stdin |-> stdin, ok |-> ok]

\* One iteration of the loop of run_commands: the launches it attempts, the
\* warnings it reports and the error it returns with ("" when it goes on).
\* Command::spawn succeeds for an installed program; write_ok is whether
\* write_all to the shell's stdin succeeds.
run_command(command, shell, installed, write_ok) ==
    LET go(launches, warns) == [ret |-> "", launches |-> launches, warns |-> warns]
        fail(launches, err) == [ret |-> err, launches |-> launches, warns |-> <<>>]
    IN IF command.kind = "Bare"
       THEN IF command.argv = <<>> THEN go(<<>>, <<>>)
            ELSE LET bin == Head(command.argv)
                     ok == bin \in installed
                 IN go(<<Launch(bin, Tail(command.argv), <<>>, ok)>>,
                       IF ok THEN <<>>
                       ELSE <<Warning("couldn't run bare command", bin)>>)
       ELSE IF command.text = <<>> THEN go(<<>>, <<>>)
       ELSE IF ~shell.enabled
            THEN go(<<>>, <<Warning("shell execution is disabled", command.text)>>)
       ELSE IF shell.shell = <<>> THEN go(<<>>, <<>>)
       ELSE LET shell_name == Head(shell.shell)
                args == Tail(shell.shell)
                ok == shell_name \in installed
            IN IF shell.piped
               THEN IF ~ok
                    THEN fail(<<Launch(shell_name, args, <<>>, FALSE)>>, "failed to run shell")
                    ELSE IF ~write_ok
                    THEN fail(<<Launch(shell_name, args, <<>>, TRUE)>>,
                              "failed to write to shell stdin??")
                    ELSE go(<<Launch(shell_name, args, command.text, TRUE)>>, <<>>)
               ELSE go(<<Launch(shell_name, Append(args, command.text), <<>>, ok)>>,
                       IF ok THEN <<>>
                       ELSE <<Warning("problem running shell command", command.text)>>)

RunCommand ==
    /\ pc = "dispatch"
    /\ next_cmd <= Len(commands)
    /\ \E write_ok \in BOOLEAN :
         LET r == run_command(commands[next_cmd], config.shell, env.installed, write_ok)
         IN /\ spawned' = spawned \o r.launches
            /\ warnings' = warnings \o r.warns
            /\ error' = r.ret
            /\ pc' = IF r.ret = "" THEN "dispatch" ELSE "failed"
            /\ next_cmd' = IF r.ret = "" THEN next_cmd + 1 ELSE next_cmd
    /\ UNCHANGED <<config, env, entries, commands, resVars, selVars, ioVars>>

\* The loop is through: run_commands returns Ok(()).
RunCommandsReturns ==
    /\ pc = "dispatch"
    /\ next_cmd > Len(commands)
    /\ pc' = "done"
    /\ UNCHANGED <<config, env, error, warnings, entries, commands, resVars, selVars,
                   runVars, ioVars>>

(***************************************************************************)
(* The dispatch stage on its own: any batch, any shell policy, any set of  *)
(* installed programs.                                                     *)
(***************************************************************************)
Programs == { S(<<"a">>), S(<<"b">>), S(<<"s", "h">>) }
DispatchRuns ==
    { binary(S(<<"a">>)), Bare(<<S(<<"b">>), S(<<"x">>)>>), Bare(<<>>),
      Shell(S(<<"l", "s">>)), Shell(<<>>) }
ShellConfigs ==
    { ShellDisabled, [enabled |-> TRUE, shell |-> <<>>, piped |-> FALSE] }
    \cup { [enabled |-> TRUE, shell |-> <<S(<<"s", "h">>)>>, piped |-> piped] :
             piped \in BOOLEAN }

DispatchInit ==
    /\ commands \in SeqsUpTo(DispatchRuns, MaxCommands)
    /\ \E shell \in ShellConfigs :
         config = [entries |-> <<>>, shell |-> shell, path |-> PathDisabled,
                   custom |-> "Enabled",
                   numbered |-> [enabled |-> TRUE, separator |-> S(<<":">>)],
                   home_dir |-> S(<<"/", "h">>)]
    /\ \E installed \in SUBSET Programs : env = [NoEnv EXCEPT !.installed = installed]
    /\ pc = "dispatch"
    /\ error = ""
    /\ warnings = <<>>
    /\ entries = <<>>
    /\ ResIdle /\ SelIdle /\ RunIdle /\ IoIdle

DispatchNext == RunCommand \/ RunCommandsReturns

SpecDispatch == DispatchInit /\ [][DispatchNext]_vars

\* Launching this command fails: the program it starts is not installed.
LaunchFails(command) ==
    IF command.kind = "Bare"
    THEN command.argv /= <<>> /\ Head(command.argv) \notin env.installed
    ELSE /\ command.text /= <<>>
         /\ config.shell.enabled
         /\ config.shell.shell /= <<>>
         /\ Head(config.shell.shell) \notin env.installed

\* C8: under every shell policy, a command whose launch fails costs one
\* warning and the loop goes on to the next command; run_commands does not
\* return an error for it.
C8_SpawnFailureIsolated ==
    [][(pc = "dispatch" /\ next_cmd <= Len(commands) /\ LaunchFails(commands[next_cmd]))
         => /\ pc' = "dispatch"
            /\ next_cmd' = next_cmd + 1
            /\ Len(warnings') = Len(warnings) + 1]_vars

(***************************************************************************)
(* run_dmenu: the primary flow, the writer thread and the dmenu child,     *)
(* joined by two pipes of bounded capacity.                                *)
(***************************************************************************)
Dmenu == S(<<"d", "m">>)

\* A selector is a black box: some finite run of reads of its stdin and
\* writes to its stdout, then exit.  "drain" reads to end of file.
SelectorOps == {"read", "drain", "write", "write_bad"}
SelectorPrograms == SeqsUpTo(SelectorOps, MaxSelectorOps)

\* The byte a selector op writes: a letter, or a byte no UTF-8 text holds.
WrittenByte(op) == IF op = "write" THEN Ord["a"] ELSE 255

\* String::from_utf8 succeeds.
IsUtf8(bytes) == \A i \in 1..Len(bytes) : bytes[i] /= 255

\* Command::spawn, stdin.take() and thread::spawn.
SpawnDmenu ==
    /\ pc = "dmenu"
    /\ IF Dmenu \in env.installed
       THEN /\ \E prog \in SelectorPrograms : selector' = [pc |-> "running", prog |-> prog]
            /\ writer' = [pc |-> "writing", pos |-> 0]
            /\ pc' = "join"
            /\ error' = error
       ELSE /\ pc' = "failed"
            /\ error' = "failed to run command dmenu (is it installed?)"
            /\ UNCHANGED <<writer, selector>>
    /\ UNCHANGED <<config, env, warnings, entries, commands, resVars, selVars, runVars,
                   stdin_pipe, stdout_pipe, output>>

\* The writer thread inside write_all: one more byte into the pipe when it
\* has room; an error once the selector has closed its end.
WriterWrites ==
    /\ writer.pc = "writing"
    /\ writer.pos < Len(menu_display)
    /\ IF selector.pc = "exited"
       THEN writer' = [writer EXCEPT !.pc = "failed"] /\ stdin_pipe' = stdin_pipe
       ELSE /\ Len(stdin_pipe) < PipeCap
            /\ stdin_pipe' = Append(stdin_pipe, menu_display[writer.pos + 1])
            /\ writer' = [writer EXCEPT !.pos = @ + 1]
    /\ UNCHANGED <<config, env, pc, error, warnings, entries, commands, resVars, selVars,
                   runVars, selector, stdout_pipe, output>>

\* write_all returned Ok: the closure ends and drops stdin, closing the pipe.
WriterFinishes ==
    /\ writer.pc = "writing"
    /\ writer.pos = Len(menu_display)
    /\ writer' = [writer EXCEPT !.pc = "done"]
    /\ UNCHANGED <<config, env, pc, error, warnings, entries, commands, resVars, selVars,
                   runVars, selector, stdin_pipe, stdout_pipe, output>>

StdinClosed == writer.pc \in {"done", "failed"}

\* The selector reads: a byte if there is one, end of file if the pipe is
\* empty and closed; it blocks otherwise.
SelectorReads ==
    /\ selector.pc = "running"
    /\ selector.prog /= <<>>
    /\ Head(selector.prog) \in {"read", "drain"}
    /\ IF stdin_pipe /= <<>>
       THEN /\ stdin_pipe' = Tail(stdin_pipe)
            /\ selector' = IF Head(selector.prog) = "read"
                           THEN [selector EXCEPT !.prog = Tail(@)]
                           ELSE selector
       ELSE /\ StdinClosed
            /\ stdin_pipe' = stdin_pipe
            /\ selector' = [selector EXCEPT !.prog = Tail(@)]
    /\ UNCHANGED <<config, env, pc, error, warnings, entries, commands, resVars, selVars,
                   runVars, writer, stdout_pipe, output>>

\* The selector writes a byte to its stdout; it blocks while the pipe is full.
SelectorWrites ==
    /\ selector.pc = "running"
    /\ selector.prog /= <<>>
    /\ Head(selector.prog) \in {"write", "write_bad"}
    /\ Len(stdout_pipe) < PipeCap
    /\ stdout_pipe' = Append(stdout_pipe, WrittenByte(Head(selector.prog)))
    /\ selector' = [selector EXCEPT !.prog = Tail(@)]
    /\ UNCHANGED <<config, env, pc, error, warnings, entries, commands, resVars, selVars,
                   runVars, writer, stdin_pipe, output>>

\* The selector exits, closing its ends of both pipes.
SelectorExits ==
    /\ selector.pc = "running"
    /\ selector.prog = <<>>
    /\ selector' = [selector EXCEPT !.pc = "exited"]
    /\ stdin_pipe' = <<>>
    /\ UNCHANGED <<config, env, pc, error, warnings, entries, commands, resVars, selVars,
                   runVars, writer, stdout_pipe, output>>

\* thread.join() returns once the writer thread has ended; its error is
\* returned by run_dmenu.
JoinWriter ==
    /\ pc = "join"
    /\ writer.pc \in {"done", "failed"}
    /\ IF writer.pc = "done"
       THEN pc' = "wait" /\ error' = error
       ELSE pc' = "failed" /\ error' = "failed to write to dmenu stdin??"
    /\ UNCHANGED <<config, env, warnings, entries, commands, resVars, selVars, runVars,
                   ioVars>>

\* wait_with_output reads what the selector has written.
DrainOutput ==
    /\ pc = "wait"
    /\ stdout_pipe /= <<>>
    /\ output' = Append(output, Head(stdout_pipe))
    /\ stdout_pipe' = Tail(stdout_pipe)
    /\ UNCHANGED <<config, env, pc, error, warnings, entries, commands, resVars, selVars,
                   runVars, writer, selector, stdin_pipe>>

\* End of file on stdout and the child has exited: wait_with_output returns
\* and the bytes are decoded.
RunDmenuReturns ==
    /\ pc = "wait"
    /\ stdout_pipe = <<>>
    /\ selector.pc = "exited"
    /\ IF IsUtf8(output)
       THEN pc' = "returned" /\ dmenu_out' = output /\ error' = error
       ELSE pc' = "failed" /\ dmenu_out' = dmenu_out /\ error' = "invalid utf-8 sequence"
    /\ UNCHANGED <<config, env, warnings, entries, commands, resVars, menu_display, choices,
                   runVars, ioVars>>

BridgeEntries(n) == [i \in 1..n |-> RunEntry(S(<<"a">>), binary(S(<<"a">>)), 0)]

BridgeInit ==
    /\ \E n \in 0..MaxMenuLines :
         /\ entries = BridgeEntries(n)
         /\ config = [entries |-> [i \in 1..n |-> Full(S(<<"a">>), binary(S(<<"a">>)), 0)],
                      shell |-> ShellDisabled, path |-> PathDisabled, custom |-> "Enabled",
                      numbered |-> [enabled |-> TRUE, separator |-> S(<<":">>)],
                      home_dir |-> S(<<"/", "h">>)]
         /\ menu_display = display_entries("Decimal", config, entries)
    /\ \E installed \in {{}, {Dmenu}} : env = [NoEnv EXCEPT !.installed = installed]
    /\ pc = "dmenu"
    /\ error = ""
    /\ warnings = <<>>
    /\ commands = <<>>
    /\ dmenu_out = <<>>
    /\ choices = <<>>
    /\ ResIdle /\ RunIdle /\ IoIdle

BridgeNext ==
    \/ SpawnDmenu
    \/ WriterWrites
    \/ WriterFinishes
    \/ SelectorReads
    \/ SelectorWrites
    \/ SelectorExits
    \/ JoinWriter
    \/ DrainOutput
    \/ RunDmenuReturns

SpecBridge == BridgeInit /\ [][BridgeNext]_vars

\* C7: run_dmenu drains the selector's output while the writer is still
\* writing, so it never gets stuck: until it has returned, the primary flow,
\* the writer or the selector can take a step, whatever the selector does
\* before it exits.
C7_RunDmenuNeverStuck == (pc \in {"join", "wait"}) => ENABLED BridgeNext

(***************************************************************************)
(* build_entries.                                                          *)
(***************************************************************************)
NameOnly(name) == [kind |-> "Name", name |-> name, run |-> Shell(<<>>), group |-> 0]
Filter(name) == [kind |-> "Filter", name |-> name, run |-> Shell(<<>>), group |-> 0]

NoEntry == [some |-> FALSE, val |-> RunEntry(<<>>, Shell(<<>>), 0)]

\* RunEntry::try_from
try_from(entry, shell_is_enabled) ==
    IF entry.kind = "Full" THEN Some(RunEntry(entry.name, entry.run, entry.group))
    ELSE IF entry.kind = "Name"
    THEN Some(RunEntry(entry.name,
                       IF shell_is_enabled THEN Shell(entry.name) ELSE binary(entry.name),
                       0))
    ELSE NoEntry

\* The conversion as both branches of build_entries call it.
run_entry_of(cfg, entry) == try_from(entry, ~cfg.shell.enabled)

\* The values of a sequence of options that are there, in order.
RECURSIVE Flatten(_)
Flatten(opts) ==
    IF opts = <<>> THEN <<>>
    ELSE (IF Head(opts).some THEN <<Head(opts).val>> ELSE <<>>) \o Flatten(Tail(opts))

\* collect::<HashMap<_, _>>(): one slot per name, a later declaration of a
\* name overwriting an earlier one.
collect_menu_entries(cfg) ==
    LET names == {cfg.entries[i].name : i \in 1..Len(cfg.entries)}
        last(n) == CHOOSE i \in 1..Len(cfg.entries) :
                      /\ cfg.entries[i].name = n
                      /\ \A j \in 1..Len(cfg.entries) : cfg.entries[j].name = n => j <= i
    IN [n \in names |-> run_entry_of(cfg, cfg.entries[last(n)])]

\* str::split on one character.
RECURSIVE SplitOn(_, _, _)
SplitOn(s, c, cur) ==
    IF s = <<>> THEN <<cur>>
    ELSE IF Head(s) = c THEN <<cur>> \o SplitOn(Tail(s), c, <<>>)
    ELSE SplitOn(Tail(s), c, Append(cur, Head(s)))

JoinPath(dir, name) == dir \o <<Ord["/"]>> \o name

\* The search paths: the configured ones with ~/ expanded, then those of the
\* PATH variable when path.env is set and the variable exists.
search_paths(cfg, environment) ==
    LET expand(pathstr) ==
            IF Len(pathstr) >= 2 /\ pathstr[1] = Ord["~"] /\ pathstr[2] = Ord["/"]
            THEN JoinPath(cfg.home_dir, SubSeq(pathstr, 3, Len(pathstr)))
            ELSE pathstr
        env_paths ==
            IF cfg.path.env /\ environment.has_path_var
            THEN SplitOn(environment.path_var, Ord[":"], <<>>)
            ELSE <<>>
    IN [i \in 1..Len(cfg.path.path) |-> expand(cfg.path.path[i])] \o env_paths

FileAt(path, name, unicode) == [path |-> path, name |-> name, unicode |-> unicode]

\* walk_dir over the items of one directory: the error it returns ("" for
\* Ok), what it pushed on recur and on files, and the warnings it reported.
RECURSIVE walk_dir(_, _, _, _, _)
walk_dir(dir, items, recur, files, warns) ==
    IF items = <<>> THEN [error |-> "", recur |-> recur, files |-> files, warns |-> warns]
    ELSE LET item == Head(items)
             path == JoinPath(dir, item.name)
         IN IF item.kind = "bad_entry"
            THEN [error |-> "error trying to walk PATH directory",
                  recur |-> recur, files |-> files, warns |-> warns]
            ELSE IF item.kind = "bad_type"
            THEN [error |-> "error reading file metadata",
                  recur |-> recur, files |-> files, warns |-> warns]
            ELSE IF item.kind \in {"dir", "link_dir"}
            THEN walk_dir(dir, Tail(items), Append(recur, path), files, warns)
            ELSE IF item.kind = "link_broken"
            THEN walk_dir(dir, Tail(items), recur, files,
                          Append(warns, Warning("symlink is broken", path)))
            ELSE IF item.kind = "exe"
            THEN walk_dir(dir, Tail(items), recur,
                          Append(files, FileAt(path, item.name, item.unicode)), warns)
            ELSE walk_dir(dir, Tail(items), recur, files, warns)

\* fs::read_dir succeeds.
Readable(fs, dir) == dir \in DOMAIN fs /\ fs[dir].readable

\* The loop over recur of the path_bins closure.
RECURSIVE walk_recur(_, _, _, _)
walk_recur(fs, recur, files, warns) ==
    IF recur = <<>> THEN [kind |-> "ok", files |-> files, error |-> "", warns |-> warns]
    ELSE LET dir == recur[Len(recur)]
             rest == SubSeq(recur, 1, Len(recur) - 1)
         IN IF ~Readable(fs, dir) THEN walk_recur(fs, rest, files, warns)
            ELSE LET w == walk_dir(dir, fs[dir].items, rest, files, warns)
                 IN IF w.error /= ""
                    THEN [kind |-> "err", files |-> <<>>, error |-> w.error, warns |-> w.warns]
                    ELSE walk_recur(fs, w.recur, w.files, w.warns)

\* The filter_map closure of path_bins on one search path: nothing for an
\* unreadable directory, else the error or the files of the traversal.
scan_path(fs, dir, recursive) ==
    IF ~Readable(fs, dir) THEN [kind |-> "skip", files |-> <<>>, error |-> "", warns |-> <<>>]
    ELSE LET w == walk_dir(dir, fs[dir].items, <<>>, <<>>, <<>>)
         IN IF w.error /= ""
            THEN [kind |-> "err", files |-> <<>>, error |-> w.error, warns |-> w.warns]
            ELSE IF recursive THEN walk_recur(fs, w.recur, w.files, w.warns)
            ELSE [kind |-> "ok", files |-> w.files, error |-> "", warns |-> w.warns]

\* The loop body giving a replacing executable the default group of the
\* search instead of the group of the entry it replaces.
RECURSIVE merge_bins_default_group(_, _, _, _, _, _)
merge_bins_default_group(files, menu, replace, group, bin_entries, warns) ==
    IF files = <<>> THEN [entries |-> bin_entries, menu |-> menu, warns |-> warns]
    ELSE LET file == Head(files)
             name == file.name
         IN IF ~file.unicode
            THEN merge_bins_default_group(
                     Tail(files), menu, replace, group, bin_entries,
                     Append(warns, Warning("path contained invalid unicode", file.path)))
            ELSE IF name \in DOMAIN menu
            THEN IF replace /\ menu[name].some
                 THEN merge_bins_default_group(
                          Tail(files), [menu EXCEPT ![name] = NoEntry], replace, group,
                          Append(bin_entries, RunEntry(name, binary(file.path), group)), warns)
                 ELSE merge_bins_default_group(Tail(files), menu, replace, group, bin_entries,
                                               warns)
            ELSE merge_bins_default_group(
                     Tail(files), menu, replace, group,
                     Append(bin_entries, RunEntry(name, binary(file.path), group)), warns)

\* The body of the loop over the files of one search path: the entries it
\* pushes on bin_entries, the map it leaves, the warnings it reports.
RECURSIVE merge_bins(_, _, _, _, _, _)
merge_bins(files, menu, replace, group, bin_entries, warns) ==
    IF files = <<>> THEN [entries |-> bin_entries, menu |-> menu, warns |-> warns]
    ELSE LET file == Head(files)
             name == file.name
         IN IF ~file.unicode
            THEN merge_bins(Tail(files), menu, replace, group, bin_entries,
                            Append(warns, Warning("path contained invalid unicode", file.path)))
            ELSE IF name \in DOMAIN menu
            THEN IF replace /\ menu[name].some
                 THEN merge_bins(Tail(files), [menu EXCEPT ![name] = NoEntry], replace, group,
                                 Append(bin_entries,
                                        RunEntry(name, binary(file.path), menu[name].val.group)),
                                 warns)
                 ELSE merge_bins(Tail(files), menu, replace, group, bin_entries, warns)
            ELSE merge_bins(Tail(files), menu, replace, group,
                            Append(bin_entries, RunEntry(name, binary(file.path), group)),
                            warns)

RemoveAt(seq, i) == SubSeq(seq, 1, i - 1) \o SubSeq(seq, i + 1, Len(seq))

\* Every order sort_unstable_by may leave the entries in: sorted by the
\* comparator, entries that compare equal in any order.
RECURSIVE sort_unstable_by(_)
sort_unstable_by(es) ==
    IF es = <<>> THEN {<<>>}
    ELSE UNION { { <<es[i]>> \o rest : rest \in sort_unstable_by(RemoveAt(es, i)) } :
                 i \in {k \in 1..Len(es) : \A j \in 1..Len(es) : entry_cmp(es[k], es[j]) <= 0} }

\* Some enumeration of a set (the iteration order of a HashMap is any; the
\* sort that follows does not depend on it).
RECURSIVE SetToSeq(_)
SetToSeq(set) ==
    IF set = {} THEN <<>>
    ELSE LET x == CHOOSE x \in set : TRUE IN <<x>> \o SetToSeq(set \ {x})

\* What is left of the map, as the entries extend() appends.
menu_values(menu) == Flatten([i \in 1..Cardinality(DOMAIN menu) |-> menu[SetToSeq(DOMAIN menu)[i]]])

\* build_entries with path disabled: convert, sort, return.
BuildWithoutPath ==
    /\ pc = "build"
    /\ ~config.path.enabled
    /\ entries' \in sort_unstable_by(
           Flatten([i \in 1..Len(config.entries) |-> run_entry_of(config, config.entries[i])]))
    /\ pc' = "built"
    /\ UNCHANGED <<config, env, error, warnings, commands, resVars, selVars, runVars, ioVars>>

\* build_entries with path enabled, up to the loop over path_bins.
StartDiscovery ==
    /\ pc = "build"
    /\ config.path.enabled
    /\ menu_entries' = collect_menu_entries(config)
    /\ paths' = search_paths(config, env)
    /\ entries' = <<>>
    /\ pc' = "scan"
    /\ UNCHANGED <<config, env, error, warnings, commands, bins, found, selVars, runVars,
                   ioVars>>

\* path_bins yields its next item; an Err makes build_entries return it.
ScanPath ==
    /\ pc = "scan"
    /\ bins.kind = "none"
    /\ paths /= <<>>
    /\ LET r == scan_path(env.fs, Head(paths), config.path.recursive)
       IN /\ warnings' = warnings \o r.warns
          /\ bins' = IF r.kind = "ok" THEN [kind |-> "ok", files |-> r.files, error |-> ""]
                     ELSE bins
          /\ found' = found \o r.files
          /\ paths' = IF r.kind = "skip" THEN Tail(paths) ELSE paths
          /\ pc' = IF r.kind = "err" THEN "failed" ELSE "scan"
          /\ error' = r.error
    /\ UNCHANGED <<config, env, entries, commands, menu_entries, selVars, runVars, ioVars>>

\* The loop body for the files of one search path.
MergeBins ==
    /\ pc = "scan"
    /\ bins.kind = "ok"
    /\ LET r == merge_bins(bins.files, menu_entries, config.path.replace, config.path.group,
                           <<>>, <<>>)
       IN /\ entries' = entries \o r.entries
          /\ menu_entries' = r.menu
          /\ warnings' = warnings \o r.warns
    /\ bins' = NoBins
    /\ paths' = Tail(paths)
    /\ UNCHANGED <<config, env, pc, error, commands, found, selVars, runVars, ioVars>>

\* The loop is through: append what the map still holds, sort, return.
FinishBuild ==
    /\ pc = "scan"
    /\ bins.kind = "none"
    /\ paths = <<>>
    /\ entries' \in sort_unstable_by(entries \o menu_values(menu_entries))
    /\ pc' = "built"
    /\ UNCHANGED <<config, env, error, warnings, commands, resVars, selVars, runVars, ioVars>>

ResolveNext ==
    \/ BuildWithoutPath
    \/ StartDiscovery
    \/ ScanPath
    \/ MergeBins
    \/ FinishBuild

(***************************************************************************)
(* The resolution stage on its own.  SpecResolve: any small configuration, *)
(* two search directories (~/x from the configuration, /y from PATH) that  *)
(* hold executables.  SpecWalk: a small configuration, and directories     *)
(* holding every kind of item the traversal tells apart.                   *)
(***************************************************************************)
Home == S(<<"/", "h">>)
DirX == S(<<"/", "h", "/", "x">>)
DirS == S(<<"/", "h", "/", "x", "/", "s">>)
DirY == S(<<"/", "y">>)

Item(name, kind, unicode) == [name |-> name, kind |-> kind, unicode |-> unicode]
Dir(items) == [readable |-> TRUE, items |-> items]
Unreadable == [readable |-> FALSE, items |-> <<>>]

ShellSh == [enabled |-> TRUE, shell |-> <<S(<<"s", "h">>)>>, piped |-> FALSE]
PathEnabled(env_flag, replace, recursive) ==
    [enabled |-> TRUE, path |-> <<S(<<"~", "/", "x">>)>>, env |-> env_flag,
     replace |-> replace, recursive |-> recursive, group |-> 2]

CfgNames == { S(<<"a">>), S(<<"A">>) }
CfgEntries ==
    { Full(n, Shell(S(<<"r">>)), g) : n \in CfgNames, g \in {0, 1} }
    \cup { NameOnly(n) : n \in CfgNames }
    \cup { Filter(n) : n \in CfgNames }
ExeItems == { Item(n, "exe", TRUE) : n \in CfgNames }

BuildIdle ==
    /\ pc = "build"
    /\ error = ""
    /\ warnings = <<>>
    /\ entries = <<>>
    /\ commands = <<>>
    /\ ResIdle /\ SelIdle /\ RunIdle /\ IoIdle

ResolveInit ==
    /\ \E es \in SeqsUpTo(CfgEntries, MaxEntries), shell \in {ShellDisabled, ShellSh},
          path \in {PathDisabled} \cup {PathEnabled(TRUE, r, FALSE) : r \in BOOLEAN} :
         config = [entries |-> es, shell |-> shell, path |-> path, custom |-> "Enabled",
                   numbered |-> [enabled |-> TRUE, separator |-> S(<<":">>)],
                   home_dir |-> Home]
    /\ IF config.path.enabled
       THEN \E fx, fy \in SeqsUpTo(ExeItems, MaxFiles) :
              env = [fs |-> (DirX :> Dir(fx)) @@ (DirY :> Dir(fy)),
                     path_var |-> DirY, has_path_var |-> TRUE, installed |-> {}]
       ELSE env = NoEnv
    /\ BuildIdle

SpecResolve == ResolveInit /\ [][ResolveNext]_vars

WalkItems ==
    { Item(S(<<"a">>), "exe", TRUE), Item(S(<<"b">>), "exe", FALSE),
      Item(S(<<"b">>), "file", TRUE), Item(S(<<"s">>), "dir", TRUE),
      Item(S(<<"s">>), "link_dir", TRUE), Item(S(<<"b">>), "link_broken", TRUE),
      Item(S(<<"b">>), "bad_entry", TRUE), Item(S(<<"b">>), "bad_type", TRUE) }
TopDirs == {Unreadable} \cup {Dir(items) : items \in SeqsUpTo(WalkItems, MaxItems)}
SubDirs ==
    { Unreadable, Dir(<<>>), Dir(<<Item(S(<<"b">>), "exe", TRUE)>>),
      Dir(<<Item(S(<<"b">>), "bad_type", TRUE)>>) }

WalkInit ==
    /\ \E es \in {<<>>, <<Full(S(<<"a">>), Shell(S(<<"r">>)), 1)>>},
          path \in {PathDisabled}
                   \cup {PathEnabled(e, FALSE, r) : e \in BOOLEAN, r \in BOOLEAN} :
         config = [entries |-> es, shell |-> ShellDisabled,
                   path |-> path, custom |-> "Enabled",
                   numbered |-> [enabled |-> TRUE, separator |-> S(<<":">>)],
                   home_dir |-> Home]
    /\ \E dx \in TopDirs, ds \in SubDirs, dy \in {Dir(<<>>), Dir(<<Item(S(<<"a">>), "exe", TRUE)>>)} :
         env = [fs |-> (DirX :> dx) @@ (DirS :> ds) @@ (DirY :> dy),
                path_var |-> DirY, has_path_var |-> TRUE, installed |-> {}]
    /\ BuildIdle

SpecWalk == WalkInit /\ [][ResolveNext]_vars

(***************************************************************************)
(* Properties of the resolution stage.                                     *)
(***************************************************************************)
Indices(seq, Test(_)) == {i \in 1..Len(seq) : Test(seq[i])}

\* The names of the executables the traversal handed to the merge.
DiscoveredNames == {found[i].name : i \in Indices(found, LAMBDA f : f.unicode)}

\* The declarations of a name that can run, and whether a filter names it.
RunnableDecls(n) == Indices(config.entries, LAMBDA e : e.name = n /\ e.kind /= "Filter")
FilterDeclared(n) == Indices(config.entries, LAMBDA e : e.name = n /\ e.kind = "Filter") /= {}

EntriesNamed(n) == Indices(entries, LAMBDA e : e.name = n)

\* The first executable of that name on the search paths.
FirstFound(n) ==
    found[CHOOSE i \in Indices(found, LAMBDA f : f.unicode /\ f.name = n) :
            \A j \in Indices(found, LAMBDA f : f.unicode /\ f.name = n) : i <= j]

\* How many entries build_entries resolves from the configuration and these
\* discovered files.
ResolvedCount(files) ==
    LET r == merge_bins(files, collect_menu_entries(config), config.path.replace,
                        config.path.group, <<>>, <<>>)
    IN Len(r.entries) + Len(menu_values(r.menu))

\* A resolved entry is what this declaration configures: its declared run and
\* group, or for a name-only declaration a default action on the name, group 0.
Configures(decl, e) ==
    IF decl.kind = "Full" THEN e.run = decl.run /\ e.group = decl.group
    ELSE e.run \in {Shell(decl.name), binary(decl.name)} /\ e.group = 0

\* C4: a discovered name that the configuration declares (as an entry that can
\* run, and not as a filter) resolves to exactly one entry: with replace, the
\* bare discovered path under the configured group; without, the configured
\* entry; either way the list is as long as without the discovered files of
\* that name.  A discovered name the configuration does not declare is added,
\* once per file, under the default group of the search.
C4_MergePrecedence ==
    (pc = "built" /\ config.path.enabled) =>
        \A n \in DiscoveredNames :
            IF RunnableDecls(n) /= {} /\ ~FilterDeclared(n)
            THEN /\ Cardinality(EntriesNamed(n)) = 1
                 /\ LET e == entries[CHOOSE k \in EntriesNamed(n) : TRUE]
                    IN IF config.path.replace
                       THEN /\ e.run = binary(FirstFound(n).path)
                            /\ \E i \in RunnableDecls(n) :
                                 e.group = IF config.entries[i].kind = "Full"
                                           THEN config.entries[i].group ELSE 0
                       ELSE \E i \in RunnableDecls(n) : Configures(config.entries[i], e)
                 /\ Len(entries) = ResolvedCount(SelectSeq(found, LAMBDA f : f.name /= n))
            ELSE IF Indices(config.entries, LAMBDA e : e.name = n) = {}
            THEN /\ \A i \in Indices(found, LAMBDA f : f.unicode /\ f.name = n) :
                      \E k \in 1..Len(entries) :
                          entries[k] = RunEntry(n, binary(found[i].path), config.path.group)
                 /\ Cardinality(EntriesNamed(n))
                      = Cardinality(Indices(found, LAMBDA f : f.unicode /\ f.name = n))
            ELSE TRUE

C4_Witness ==
    /\ pc = "built"
    /\ config.path.replace
    /\ config.entries = <<Full(S(<<"a">>), Shell(S(<<"r">>)), 1), NameOnly(S(<<"A">>))>>
    /\ Len(found) = 2
    /\ found[1].name = S(<<"a">>)
    /\ found[2].name = S(<<"a">>)
    /\ Len(entries) = 2
    /\ \E k \in 1..2 : entries[k] = RunEntry(S(<<"a">>), binary(JoinPath(DirX, S(<<"a">>))), 1)

\* C5: a name-only entry resolves to a shell action on its name when shell
\* mode is enabled and to a bare command of its name when it is disabled,
\* group 0, with discovery enabled or not.
C5_NameOnlyDefault ==
    pc = "built" =>
        \A i \in Indices(config.entries, LAMBDA e : e.kind = "Name") :
            LET n == config.entries[i].name
            IN (Indices(config.entries, LAMBDA e : e.name = n) = {i} /\ n \notin DiscoveredNames)
                 => \E k \in 1..Len(entries) :
                        entries[k] = RunEntry(n, IF config.shell.enabled THEN Shell(n)
                                                 ELSE binary(n), 0)

\* C6: the resolved list is sorted by group descending, lower-cased name,
\* name, and the inputs fix the sequence: no other order of the same entries
\* is one build_entries could have returned.  (Stated for the runs with
\* discovery, where the order the sort starts from is that of a HashMap.)
C6_DeterministicOrder ==
    (pc = "built" /\ config.path.enabled)
        => IsSorted(entries) /\ sort_unstable_by(entries) = {entries}

\* C9: an I/O error on a directory item or its metadata during the traversal
\* does not make build_entries fail.
C9_TraversalErrorsAreWarnings ==
    ~(pc = "failed"
      /\ error \in {"error trying to walk PATH directory", "error reading file metadata"})

\* C10: with discovery enabled, every configured entry that can run and whose
\* name no discovered executable has is in the resolved list as many times
\* as it is declared.
C10_ConfiguredEntriesKept ==
    (pc = "built" /\ config.path.enabled) =>
        \A i \in Indices(config.entries, LAMBDA e : e.kind /= "Filter") :
            LET e == run_entry_of(config, config.entries[i]).val
            IN e.name \notin DiscoveredNames
                 => Cardinality(Indices(entries, LAMBDA r : r = e))
                      = Cardinality(Indices(config.entries,
                                            LAMBDA d : d.kind /= "Filter"
                                                       /\ run_entry_of(config, d).val = e))
====
